---- MODULE Spec2Model ----
(***************************************************************************)
(* go-split: Splitter.Do and its three stages (write pool, scan pool, file *)
(* feeder), the two bounded queues chLine and chTarget, and the shared     *)
(* cancellation signal, modelled from the context-based splitter source.   *)
(*                                                                         *)
(* Channel operations follow the Go runtime: a goroutine that finds no     *)
(* ready case parks, and the operation that later makes a case ready       *)
(* (a send, a receive, a close, a cancel) completes the parked operation   *)
(* itself and commits the parked goroutine to that case.                   *)
(***************************************************************************)
EXTENDS Integers, Sequences, FiniteSets, TLC

\* ------------------------------------------------------------- bounds
MaxFiles == 2
MaxLines == 1
MaxSplit == 2
MaxPar == 2
MaxFaults == 1
MaxAdds == 3
MaxDo == 2
MaxSeqLines == 3
MaxIndex == 1000
MaxThreads == 2

\* ------------------------------------------------------------- state
VARIABLES
    files,          \* files[f]: the number of lines of input f
    param,          \* Param: Split, Parallelism, Compress, Verbose, Prefix
    ctxCause,       \* "none", or who cancelled the shared context first
    faults,         \* injected environment failures so far
    doPc,           \* position of Splitter.Do / ParallelWrite / ParallelFileScan
    wi,             \* loop index i of ParallelWrite
    fi,             \* index of the input the feeder loop is at
    retErr,         \* Do's retErr: the appended errors, in order
    egScanNil,      \* ParallelFileScan returned a nil *errgroup.Group
    chLine,         \* buffer of chLine
    chLineClosed,   \* number of close(chLine) calls
    recvqLine,      \* write workers parked receiving from chLine, in order
    sendqLine,      \* scan workers parked sending to chLine, in order
    chTarget,       \* buffer of chTarget
    chTargetClosed, \* number of close(chTarget) calls
    recvqTarget,    \* scan workers parked receiving from chTarget, in order
    wpc,            \* write worker positions
    wline,          \* the line a write worker holds
    werr,           \* the error a write worker returned
    egWriteErr,     \* first error of the write errgroup
    shard,          \* shard[i]: tokens written to shard i
    shardFile,      \* shard file: "none", "open", "closed"
    wdec,           \* result of decorateWriter in worker i
    wfails,         \* number of Write calls that failed
    spc,            \* scan worker positions
    stg,            \* the readTarget a scan worker holds
    slc,            \* lc: lines pushed for the current target
    serr,           \* the error a scan worker returned
    egScanErr,      \* first error of the scan errgroup
    reader,         \* input stream: "unopened", "open", "released"
    cleanups,       \* the cleanups of ParallelFileScan: funcs and once
    wrapPc,         \* the goroutine of ParallelFileScan that joins the scan group
    wrapErr,        \* the error that goroutine returned
    impl,           \* which cleanups a stack under test is: "defer", "multierror"
    cs,             \* a cleanups stack under test: funcs and once
    called,         \* the actions of cs that ran, in the order they ran
    doRet,          \* what the last cs.do() returned
    ndo,            \* number of cs.do() calls
    wcl,            \* wcl[i]: the cleanups createWriter made for shard i
    fpOpens,        \* fpOpens[i]: files os.Create made for shard i
    fpCloses,       \* fpCloses[i]: fp.Close() calls on shard i's file
    svc,            \* the service behind Splitter.svc: "serviceImpl", or "discard",
                    \* one whose writers accept and drop what is written
    stderr,         \* what was printed to s.stderr, in order
    fn,             \* fn[i]: the path ParallelWrite computed for shard i
    pn,             \* a loop over shard indices on its own: its bound,
    pi,             \* its index,
    paths,          \* and the paths it computed, in order
    pub,            \* the readTargets the feeder's sends delivered, in order
    nrecv,          \* nrecv[f]: receives from chTarget that yielded target f
    wran,           \* wran[i]: the release actions run for shard i, in order
    wret,           \* wret[i]: what createWriter returned to write worker i
    rret,           \* what the last createReader returned to the feeder
    rdOpens,        \* rdOpens[f]: times input f was opened
    rdCloses,       \* rdCloses[f]: times the stream of input f was closed
    tpc,            \* tpc[t]: position of thread t in its call of cs.do()
    ti,             \* ti[t]: the index of the func thread t runs next
    terr,           \* terr[t]: err of thread t's call of cs.do()
    tpath,          \* tpath[t]: the way thread t took through once.Do
    oncem           \* the thread that holds the mutex of cs.once, or 0

vars == <<files, param, ctxCause, faults, doPc, wi, fi, retErr, egScanNil,
          chLine, chLineClosed, recvqLine, sendqLine,
          chTarget, chTargetClosed, recvqTarget,
          wpc, wline, werr, egWriteErr, shard, shardFile, wdec, wfails,
          spc, stg, slc, serr, egScanErr, reader, cleanups, wrapPc, wrapErr,
          impl, cs, called, doRet, ndo, wcl, fpOpens, fpCloses, svc, stderr, fn,
          pn, pi, paths, pub, nrecv, wran, wret, rret, rdOpens, rdCloses,
          tpc, ti, terr, tpath, oncem>>

\* the threads that call cs.do() concurrently
kvars == <<tpc, ti, terr, tpath, oncem>>

\* the state of the cleanups stack under test
cvars == <<impl, cs, called, doRet, ndo, kvars>>

\* the state of the loop over shard indices on its own
pvars == <<pn, pi, paths>>

\* what createReader did
rvars == <<rret, rdOpens, rdCloses>>

\* what went through chTarget
tvars == <<pub, nrecv>>

\* the shard files and their cleanups
fvars == <<wcl, fpOpens, fpCloses, svc, fn, wran, wret>>

\* ------------------------------------------------------------- values
Nil == <<>>
LF == <<0, 0>>
NoLine == <<0, 1>>
ErrCanceled == <<"context canceled">>

Wrap(prefix, err) == <<prefix>> \o err

\* an error value of a do() that returns one: the nil error, or a
\* *multierror.Error with the errors it holds
NilError == [nil |-> TRUE, Errors |-> <<>>]

ModeNames == {"", "none", "gzip", "gz", "lzo"}
Threads == 1 .. MaxThreads

\* compression_type.go
CompressionUnknown == 0
CompressionNone == 1
CompressionGzip == 2

compressionMap ==
    [n \in {"", "none", "gzip", "gz"} |->
        IF n \in {"", "none"} THEN [id |-> CompressionNone, extension |-> ""]
        ELSE [id |-> CompressionGzip, extension |-> ".gz"]]

\* a lookup that falls back to no compression for a name it does not know
getCompressionType_Fallback(compression) ==
    IF compression \notin DOMAIN compressionMap
    THEN [id |-> CompressionNone, extension |-> ""]
    ELSE compressionMap[compression]

getCompressionType(compression) ==
    IF compression \notin DOMAIN compressionMap
    THEN [id |-> CompressionUnknown, extension |-> ""]
    ELSE compressionMap[compression]

\* decorateWriter: the writer ("none": no writer, "dest": the destination
\* itself, "gzip": a gzip encoder around it), the cleanup and the error.
decorateWriter(compression, w) ==
    LET ct == getCompressionType(compression).id IN
    CASE ct = CompressionNone -> [w |-> w, cleanup |-> "nop", err |-> Nil]
      [] ct = CompressionGzip -> [w |-> "gzip", cleanup |-> "gzw.Close", err |-> Nil]
      [] OTHER -> [w |-> "none", cleanup |-> "nil",
                   err |-> <<"unknown compression type", compression>>]

\* the decimal digits
Digits == <<"0", "1", "2", "3", "4", "5", "6", "7", "8", "9">>

\* the minimum width of the index in a shard path: %03d
PadWidth == 3

\* the decimal representation of n >= 0
RECURSIVE Itoa(_)
Itoa(n) == IF n < 10 THEN Digits[n + 1] ELSE Itoa(n \div 10) \o Digits[(n % 10) + 1]

\* s with zeros in front up to the width w; a longer s is left as it is
RECURSIVE PadZero(_, _)
PadZero(s, w) == IF Len(s) >= w THEN s ELSE PadZero("0" \o s, w)

\* an index format that keeps the last PadWidth digits only
Sprintf03d_Truncating(i) == PadZero(Itoa(i % (10 ^ PadWidth)), PadWidth)

\* fmt.Sprintf("%03d", i)
Sprintf03d(i) == PadZero(Itoa(i), PadWidth)

\* fn of shard i: fmt.Sprintf("%s%03d%s", param.Prefix, i, suffix) with the
\* suffix getCompressionType gives for param.Compress
ShardPath(i) ==
    param.Prefix \o Sprintf03d(i) \o getCompressionType(param.Compress).extension

\* nothing returned yet by createWriter or createReader
NoRet == [v |-> "unset", cleanup |-> "unset", err |-> Nil]

NoDec == [w |-> "unset", cleanup |-> "unset", err |-> Nil]

Writers == 0 .. (param.Split - 1)
\* a loop that starts one scan worker too many
Scanners_OneMore == 1 .. (param.Parallelism + 1)

Scanners == 1 .. param.Parallelism
Inputs == 1 .. Len(files)

\* a line queue with room for every line of the inputs
capLine_Roomy == param.Parallelism + MaxFiles * MaxLines

\* the capacity of chLine: make(chan line, param.Parallelism)
capLine == param.Parallelism

\* the capacity of chTarget: make(chan readTarget, parallelism)
capTarget == param.Parallelism

AllLines == UNION {{<<f, k>> : k \in 1 .. files[f]} : f \in Inputs}

Done == ctxCause # "none"

\* ------------------------------------------------------------- Init
\* the state when Do is called with files from F and a Param from P
InitDo(F, P, n, s) ==
    /\ files \in F
    /\ param \in P
    /\ svc = s
    /\ ctxCause = "none"
    /\ faults = n
    /\ doPc = "ParallelWrite"
    /\ wi = 0
    /\ fi = 1
    /\ retErr = <<>>
    /\ egScanNil = FALSE
    /\ chLine = <<>>
    /\ chLineClosed = 0
    /\ recvqLine = <<>>
    /\ sendqLine = <<>>
    /\ chTarget = <<>>
    /\ chTargetClosed = 0
    /\ recvqTarget = <<>>
    /\ wpc = [i \in Writers |-> "idle"]
    /\ wline = [i \in Writers |-> NoLine]
    /\ werr = [i \in Writers |-> Nil]
    /\ egWriteErr = Nil
    /\ shard = [i \in Writers |-> <<>>]
    /\ shardFile = [i \in Writers |-> "none"]
    /\ wdec = [i \in Writers |-> NoDec]
    /\ wfails = 0
    /\ spc = [j \in Scanners |-> "idle"]
    /\ stg = [j \in Scanners |-> 0]
    /\ slc = [j \in Scanners |-> 0]
    /\ serr = [j \in Scanners |-> Nil]
    /\ egScanErr = Nil
    /\ reader = [f \in Inputs |-> "unopened"]
    /\ cleanups = [funcs |-> <<>>, once |-> FALSE]
    /\ wrapPc = "idle"
    /\ wrapErr = Nil
    /\ wcl = [i \in Writers |-> [funcs |-> <<>>, once |-> FALSE]]
    /\ fpOpens = [i \in Writers |-> 0]
    /\ fpCloses = [i \in Writers |-> 0]
    /\ stderr = <<>>
    /\ fn = [i \in Writers |-> ""]
    /\ wran = [i \in Writers |-> <<>>]
    /\ wret = [i \in Writers |-> NoRet]
    /\ rret = NoRet
    /\ rdOpens = [f \in Inputs |-> 0]
    /\ rdCloses = [f \in Inputs |-> 0]
    /\ pub = <<>>
    /\ nrecv = [f \in Inputs |-> 0]

\* a loop over the shard indices below a bound from N, before it starts
InitPaths(N) ==
    /\ pn \in N
    /\ pi = 0
    /\ paths = <<>>

\* a fresh cleanups stack of kind k
InitCleanups(k) ==
    /\ impl = k
    /\ cs = [funcs |-> <<>>, once |-> FALSE]
    /\ called = <<>>
    /\ doRet = NilError
    /\ ndo = 0
    /\ tpc = [t \in Threads |-> "idle"]
    /\ ti = [t \in Threads |-> 0]
    /\ terr = [t \in Threads |-> NilError]
    /\ tpath = [t \in Threads |-> ""]
    /\ oncem = 0

Init ==
    /\ InitDo(UNION {[1 .. n -> 0 .. MaxLines] : n \in 0 .. MaxFiles},
              [Split : 1 .. MaxSplit, Parallelism : 1 .. MaxPar, Compress : ModeNames,
               Verbose : {FALSE}, Prefix : {"out/file-"}], 0, "serviceImpl")
    /\ InitCleanups("defer")
    /\ InitPaths({0})

\* ------------------------------------------------------------- helpers
RECURSIVE Reverse(_)
Reverse(s) == IF s = <<>> THEN <<>> ELSE Append(Reverse(Tail(s)), Head(s))

Range(s) == {s[k] : k \in 1 .. Len(s)}

\* cleanups.add
add(c, f) == [c EXCEPT !.funcs = Append(@, f)]

\* a do that runs the funcs in the order they were registered
do_InOrder(c) ==
    [called |-> IF c.once THEN <<>> ELSE c.funcs,
     c |-> [c EXCEPT !.once = TRUE]]

\* a do without the sync.Once: every call runs the funcs
do_NoOnce(c) ==
    [called |-> Reverse(c.funcs),
     c |-> [c EXCEPT !.once = TRUE]]

\* cleanups.do: the actions it runs, in the order it runs them, and the
\* cleanups afterwards. The loop defers every func, so they run last-first.
do(c) ==
    [called |-> IF c.once THEN <<>> ELSE Reverse(c.funcs),
     c |-> [c EXCEPT !.once = TRUE]]

\* multierror.Append(err, e): always a non-nil *multierror.Error, holding
\* the errors of err and, when e is not nil, e
multierrorAppend(err, e) ==
    [nil |-> FALSE, Errors |-> err.Errors \o (IF e = Nil THEN <<>> ELSE <<e>>)]

\* the result of calling the registered func f: its error, or nil
callFunc(f) == IF f.fails THEN <<"failed", f.id>> ELSE Nil

\* a loop that stops at the first func that returned an error
RECURSIVE doLoop_StopAtError(_, _, _, _)
doLoop_StopAtError(funcs, i, ran, err) ==
    IF i < 1 \/ err.Errors # <<>> THEN [called |-> ran, err |-> err]
    ELSE doLoop_StopAtError(funcs, i - 1, Append(ran, funcs[i]),
                            multierrorAppend(err, callFunc(funcs[i])))

\* the loop of the do() that returns an error, from index i down to 1
RECURSIVE doLoop(_, _, _, _)
doLoop(funcs, i, ran, err) ==
    IF i < 1 THEN [called |-> ran, err |-> err]
    ELSE doLoop(funcs, i - 1, Append(ran, funcs[i]),
                multierrorAppend(err, callFunc(funcs[i])))

\* cleanups.do of the cleanups whose funcs return an error: once, the funcs
\* from the last to the first, their errors appended
do_multierror(c) ==
    LET r == doLoop(c.funcs, Len(c.funcs), <<>>, NilError) IN
    [called |-> IF c.once THEN <<>> ELSE r.called,
     err |-> IF c.once THEN NilError ELSE r.err,
     c |-> [c EXCEPT !.once = TRUE]]

\* errgroup.Group keeps the first non-nil error a worker returned
egGo(egErr, err) == IF err # Nil /\ egErr = Nil THEN err ELSE egErr

\* A goroutine parked in a select that has a <-ctx.Done() case is woken by
\* the cancel and is committed to that case.
CancelW(wp) == [i \in DOMAIN wp |-> IF wp[i] = "parked" THEN "ctxErr" ELSE wp[i]]
CancelS(sp) == [j \in DOMAIN sp |-> IF sp[j] = "sparked" THEN "ctxErr" ELSE sp[j]]
\* a feeder whose blocked send does not watch ctx.Done()
CancelD_NoWake(dp) == dp

CancelD(dp) == IF dp = "feedParked" THEN "feedCtxErr" ELSE dp

\* cancel(): with c the shared context is cancelled (by `cause` if it is the
\* first); wp, sp, dp, rq, sq are the action's own new values of wpc, spc,
\* doPc, recvqLine and sendqLine.
cancel(c, cause, wp, sp, dp, rq, sq) ==
    /\ ctxCause' = IF c /\ ctxCause = "none" THEN cause ELSE ctxCause
    /\ wpc' = IF c THEN CancelW(wp) ELSE wp
    /\ spc' = IF c THEN CancelS(sp) ELSE sp
    /\ doPc' = IF c THEN CancelD(dp) ELSE dp
    /\ recvqLine' = IF c THEN <<>> ELSE rq
    /\ sendqLine' = IF c THEN <<>> ELSE sq

\* ------------------------------------------------------------- write stage
\* a Do that appends the error of ParallelWrite and carries on
DoAfterParallelWriteErr_Continue == "ParallelFileScan"

\* Do returns at once when ParallelWrite returned an error
DoAfterParallelWriteErr == "returned"

\* a loop that ends after the first worker it started
AfterEgGo_OneWorker(i) == "ParallelFileScan"

\* where Do is after eg.Go of the write worker i: in the loop of ParallelWrite
\* while there are indices left, then at ParallelFileScan
AfterEgGo(i) == IF i + 1 < param.Split THEN "ParallelWrite" ELSE "ParallelFileScan"

\* ParallelWrite, one iteration of its loop: mkdirAll, then eg.Go
ParallelWrite ==
    /\ doPc = "ParallelWrite"
    /\ fn' = [fn EXCEPT ![wi] = ShardPath(wi)]
    /\ \/ /\ faults < MaxFaults
          /\ faults' = faults + 1
          /\ retErr' = <<Wrap("ParallelWrite", <<"mkdirAll", "mkdir failed">>)>>
          /\ cancel(TRUE, "ParallelWrite", wpc, spc, DoAfterParallelWriteErr,
                    recvqLine, sendqLine)
          /\ UNCHANGED wi
       \/ /\ wi' = wi + 1
          /\ cancel(FALSE, "", [wpc EXCEPT ![wi] = "create"], spc,
                    AfterEgGo(wi),
                    recvqLine, sendqLine)
          /\ UNCHANGED <<faults, retErr>>
    /\ UNCHANGED <<cvars, pvars, rvars, tvars, wcl, fpOpens, fpCloses, svc, wran, wret,
                   stderr, files,
                   param,
                   fi, egScanNil, chLine, chLineClosed,
                   chTarget, chTargetClosed, recvqTarget,
                   wline, werr, egWriteErr, shard, shardFile, wdec, wfails,
                   stg, slc, serr, egScanErr, reader, cleanups, wrapPc, wrapErr>>

\* the cleanups c of shard i are run (cleanups.do): fp.Close() closes the
\* shard file
WClose(i, c) ==
    LET ran == do(c).called
        n == Cardinality({k \in 1 .. Len(ran) : ran[k] = "fp.Close"}) IN
    /\ wcl' = [wcl EXCEPT ![i] = do(c).c]
    /\ wran' = [wran EXCEPT ![i] = @ \o ran]
    /\ fpCloses' = [fpCloses EXCEPT ![i] = @ + n]
    /\ shardFile' = [shardFile EXCEPT ![i] = IF n > 0 THEN "closed" ELSE @]

\* a write worker returns err: the deferred cleanup() closes the shard file,
\* the deferred func cancels when err is not nil
WReturn(i, err, rq) ==
    /\ werr' = [werr EXCEPT ![i] = err]
    /\ UNCHANGED egWriteErr
    /\ cancel(err # Nil, "write",
              [wpc EXCEPT ![i] = IF err = Nil THEN "done" ELSE "returning"],
              spc, doPc, rq, sendqLine)

\* the errgroup goroutine around a write worker that returned an error:
\* errOnce keeps the error if it is the first, then wg.Done()
W_egDone(i) ==
    /\ wpc[i] = "returning"
    /\ egWriteErr' = egGo(egWriteErr, werr[i])
    /\ cancel(FALSE, "", [wpc EXCEPT ![i] = "done"], spc, doPc, recvqLine, sendqLine)
    /\ UNCHANGED <<cvars, pvars, rvars, tvars, fvars, stderr, files, param,
                   faults, wi, fi, retErr, egScanNil, chLine,
                   chLineClosed, chTarget, chTargetClosed, recvqTarget, wline, werr,
                   shard, shardFile, wdec, wfails, stg, slc, serr, egScanErr,
                   reader, cleanups, wrapPc, wrapErr>>

\* a createWriter that registers the decorator's cleanup before fp.Close
createWriterCleanups_DecoratorFirst(c, d) == add(add(c, d.cleanup), "fp.Close")

\* the cleanups of a createWriter that succeeded, with d the result of
\* decorateWriter: fp.Close is registered first, then the decorator's cleanup
createWriterCleanups(c, d) == add(add(c, "fp.Close"), d.cleanup)

\* serviceImpl.createWriter in the write worker: os.Create, decorateWriter
W_createWriter(i) ==
    /\ wpc[i] = "create"
    /\ \/ /\ faults < MaxFaults
          /\ faults' = faults + 1
          /\ WReturn(i, Wrap("createWriter", <<"create failed">>), recvqLine)
          /\ WClose(i, wcl[i])
          /\ wret' = [wret EXCEPT ![i] = [v |-> "nil", cleanup |-> "nil",
                                           err |-> <<"create failed">>]]
          /\ UNCHANGED <<fpOpens, wdec>>
       \/ LET d == decorateWriter(param.Compress, "dest") IN
          /\ wdec' = [wdec EXCEPT ![i] = d]
          /\ fpOpens' = [fpOpens EXCEPT ![i] = @ + 1]
          /\ UNCHANGED faults
          /\ IF d.err # Nil
             THEN /\ WClose(i, add(wcl[i], "fp.Close"))
                  /\ wret' = [wret EXCEPT ![i] = [v |-> "nil", cleanup |-> "nil",
                                                   err |-> Wrap("decorateWriter", d.err)]]
                  /\ WReturn(i, Wrap("createWriter", Wrap("decorateWriter", d.err)), recvqLine)
             ELSE /\ shardFile' = [shardFile EXCEPT ![i] = "open"]
                  /\ wcl' = [wcl EXCEPT ![i] = createWriterCleanups(@, d)]
                  /\ wret' = [wret EXCEPT ![i] = [v |-> d.w, cleanup |-> "cleanups.do",
                                                   err |-> Nil]]
                  /\ UNCHANGED <<fpCloses, wran>>
                  /\ cancel(FALSE, "", [wpc EXCEPT ![i] = "sel"], spc, doPc,
                            recvqLine, sendqLine)
                  /\ UNCHANGED <<werr, egWriteErr>>
    /\ UNCHANGED <<cvars, pvars, rvars, tvars,
                   svc, fn, stderr, files, param, wi, fi, retErr, egScanNil, chLine,
                   chLineClosed, chTarget, chTargetClosed, recvqTarget, wline, shard,
                   wfails, stg, slc, serr, egScanErr, reader, cleanups, wrapPc,
                   wrapErr>>

\* the select of the write worker: <-ctx.Done() or a receive from chIn
W_select(i) ==
    /\ wpc[i] = "sel"
    /\ \/ /\ Done
          /\ WClose(i, wcl[i])
          /\ WReturn(i, ErrCanceled, recvqLine)
          /\ UNCHANGED <<chLine, wline>>
       \/ /\ chLineClosed > 0 /\ chLine = <<>>
          /\ WClose(i, wcl[i])
          /\ WReturn(i, Nil, recvqLine)
          /\ UNCHANGED <<chLine, wline>>
       \/ /\ ~(chLineClosed > 0 /\ chLine = <<>>)
          /\ sendqLine # <<>>
          /\ LET j == Head(sendqLine) IN
             /\ chLine' = Append(Tail(chLine), <<stg[j], slc[j] + 1>>)
             /\ wline' = [wline EXCEPT ![i] = Head(chLine)]
             /\ cancel(FALSE, "", [wpc EXCEPT ![i] = "write"],
                       [spc EXCEPT ![j] = "sent"], doPc, recvqLine, Tail(sendqLine))
          /\ UNCHANGED <<shardFile, wcl, fpCloses, wran, werr, egWriteErr>>
       \/ /\ sendqLine = <<>>
          /\ chLine # <<>>
          /\ chLine' = Tail(chLine)
          /\ wline' = [wline EXCEPT ![i] = Head(chLine)]
          /\ cancel(FALSE, "", [wpc EXCEPT ![i] = "write"], spc, doPc, recvqLine, sendqLine)
          /\ UNCHANGED <<shardFile, wcl, fpCloses, wran, werr, egWriteErr>>
       \/ /\ ~Done /\ chLineClosed = 0 /\ chLine = <<>> /\ sendqLine = <<>>
          /\ cancel(FALSE, "", [wpc EXCEPT ![i] = "parked"], spc, doPc,
                    Append(recvqLine, i), sendqLine)
          /\ UNCHANGED <<shardFile, wcl, fpCloses, wran, werr, egWriteErr, chLine, wline>>
    /\ UNCHANGED <<cvars, pvars, rvars, tvars,
                   fpOpens, svc, fn, wret, stderr, files, param, faults, wi, fi, retErr,
                   egScanNil, chLineClosed, chTarget, chTargetClosed, recvqTarget,
                   shard, wdec, wfails, stg, slc, serr, egScanErr, reader, cleanups,
                   wrapPc, wrapErr>>

\* a write worker that writes the line's bytes and no newline
W_write_NoNewline(i) ==
    /\ wpc[i] = "write"
    /\ shard' = [shard EXCEPT ![i] = Append(@, wline[i])]
    /\ wline' = [wline EXCEPT ![i] = NoLine]
    /\ cancel(FALSE, "", [wpc EXCEPT ![i] = "sel"], spc, doPc, recvqLine, sendqLine)
    /\ UNCHANGED <<cvars, pvars, rvars, tvars, fvars, stderr, files, param,
                   faults, wfails, wi, fi, retErr,
                   egScanNil, chLine, chLineClosed, chTarget, chTargetClosed,
                   recvqTarget, werr, egWriteErr, shardFile, wdec, stg, slc, serr,
                   egScanErr, reader, cleanups, wrapPc, wrapErr>>

\* a write worker that writes what it holds before it has created its shard
W_write_BeforeCreate(i) ==
    /\ wpc[i] \in {"create", "write"}
    /\ \E okLine \in BOOLEAN, okLf \in BOOLEAN :
         LET cost == (IF okLine THEN 0 ELSE 1) + (IF okLf THEN 0 ELSE 1) IN
         /\ faults + cost <= MaxFaults
         /\ faults' = faults + cost
         /\ wfails' = wfails + cost
         /\ shard' = IF svc = "discard" THEN shard
                     ELSE [shard EXCEPT ![i] =
                            @ \o (IF okLine THEN <<wline[i]>> ELSE <<>>)
                              \o (IF okLf THEN <<LF>> ELSE <<>>)]
    /\ wline' = [wline EXCEPT ![i] = NoLine]
    /\ cancel(FALSE, "", [wpc EXCEPT ![i] = "sel"], spc, doPc, recvqLine, sendqLine)
    /\ UNCHANGED <<cvars, pvars, rvars, tvars, fvars, stderr, files, param,
                   wi, fi, retErr, egScanNil, chLine, chLineClosed,
                   chTarget, chTargetClosed, recvqTarget, werr, egWriteErr,
                   shardFile, wdec, stg, slc, serr, egScanErr, reader, cleanups,
                   wrapPc, wrapErr>>

\* w.Write([]byte(line)); w.Write(lf): either call may fail, and the worker
\* looks at neither result
W_write(i) ==
    /\ wpc[i] = "write"
    /\ \E okLine \in BOOLEAN, okLf \in BOOLEAN :
         LET cost == (IF okLine THEN 0 ELSE 1) + (IF okLf THEN 0 ELSE 1) IN
         /\ faults + cost <= MaxFaults
         /\ faults' = faults + cost
         /\ wfails' = wfails + cost
         /\ shard' = IF svc = "discard" THEN shard
                     ELSE [shard EXCEPT ![i] =
                            @ \o (IF okLine THEN <<wline[i]>> ELSE <<>>)
                              \o (IF okLf THEN <<LF>> ELSE <<>>)]
    /\ wline' = [wline EXCEPT ![i] = NoLine]
    /\ cancel(FALSE, "", [wpc EXCEPT ![i] = "sel"], spc, doPc, recvqLine, sendqLine)
    /\ UNCHANGED <<cvars, pvars, rvars, tvars, fvars, stderr, files, param,
                   wi, fi, retErr, egScanNil, chLine, chLineClosed,
                   chTarget, chTargetClosed, recvqTarget, werr, egWriteErr,
                   shardFile, wdec, stg, slc, serr, egScanErr, reader, cleanups,
                   wrapPc, wrapErr>>

\* a write worker that returns from its select without running its cleanup
W_woken_NoCleanup(i) ==
    /\ wpc[i] \in {"ctxErr", "closed"}
    /\ WReturn(i, IF wpc[i] = "ctxErr" THEN ErrCanceled ELSE Nil, recvqLine)
    /\ UNCHANGED <<cvars, pvars, rvars, tvars, fvars, stderr, files, param,
                   faults, wi, fi, retErr,
                   egScanNil, chLine, chLineClosed, chTarget, chTargetClosed,
                   recvqTarget, wline, shard, shardFile, wdec, wfails, stg, slc,
                   serr, egScanErr, reader, cleanups, wrapPc, wrapErr>>

\* a write worker woken from its select: by the cancel (return ctx.Err()) or
\* by close(chLine) (return nil)
W_woken(i) ==
    /\ wpc[i] \in {"ctxErr", "closed"}
    /\ WClose(i, wcl[i])
    /\ WReturn(i, IF wpc[i] = "ctxErr" THEN ErrCanceled ELSE Nil, recvqLine)
    /\ UNCHANGED <<cvars, pvars, rvars, tvars,
                   fpOpens, svc, fn, wret, stderr, files, param, faults, wi, fi, retErr,
                   egScanNil, chLine,
                   chLineClosed, chTarget, chTargetClosed, recvqTarget, wline,
                   shard, wdec, wfails, stg, slc, serr, egScanErr, reader,
                   cleanups, wrapPc, wrapErr>>

\* ------------------------------------------------------------- scan stage
\* a progress line is printed every so many lines of a target
ProgressEvery == 10000

\* a Fprintf that is not guarded by its condition
Fprintf_Unconditional(cond, entry) == Append(stderr, entry)

\* fmt.Fprintf(s.stderr, ...) of `entry`, under the condition `cond`
Fprintf(cond, entry) == IF cond THEN Append(stderr, entry) ELSE stderr

\* after lc++: the progress line of target tg when lc is a multiple
ProgressLine(tg, lc) ==
    Fprintf(param.Verbose /\ lc % ProgressEvery = 0, <<"line", tg, lc>>)

\* a scan worker returns err; the deferred func cancels when err is not nil
SReturn(j, err, sq) ==
    /\ serr' = [serr EXCEPT ![j] = err]
    /\ UNCHANGED egScanErr
    /\ cancel(err # Nil, "scan", wpc,
              [spc EXCEPT ![j] = IF err = Nil THEN "done" ELSE "returning"],
              doPc, recvqLine, sq)

\* the errgroup goroutine around a scan worker that returned an error
S_egDone(j) ==
    /\ spc[j] = "returning"
    /\ egScanErr' = egGo(egScanErr, serr[j])
    /\ cancel(FALSE, "", wpc, [spc EXCEPT ![j] = "done"], doPc, recvqLine, sendqLine)
    /\ UNCHANGED <<cvars, pvars, rvars, tvars, fvars, stderr, files, param,
                   faults, wi, fi, retErr, egScanNil, chLine,
                   chLineClosed, chTarget, chTargetClosed, recvqTarget, wline, werr,
                   egWriteErr, shard, shardFile, wdec, wfails, stg, slc, serr,
                   reader, cleanups, wrapPc, wrapErr>>

\* a receive that leaves the readTarget it yields in the queue
recvTarget_Peek(q) == [tg |-> Head(q), rest |-> q]

\* a receive from the buffer q of chTarget: the readTarget at its head, and
\* the buffer without it
recvTarget(q) == [tg |-> Head(q), rest |-> Tail(q)]

\* for tg := range chIn: the receive from chTarget. A feeder parked on the
\* full queue has its send completed by this receive.
S_range(j) ==
    /\ spc[j] = "range"
    /\ \/ /\ chTargetClosed > 0 /\ chTarget = <<>>
          /\ SReturn(j, Nil, sendqLine)
          /\ UNCHANGED <<chTarget, recvqTarget, stg, slc, fi, tvars>>
       \/ /\ chTarget # <<>>
          /\ stg' = [stg EXCEPT ![j] = recvTarget(chTarget).tg]
          /\ slc' = [slc EXCEPT ![j] = 0]
          /\ nrecv' = [nrecv EXCEPT ![recvTarget(chTarget).tg] = @ + 1]
          /\ IF doPc = "feedParked"
             THEN /\ chTarget' = Append(recvTarget(chTarget).rest, fi)
                  /\ pub' = Append(pub, fi)
                  /\ fi' = fi + 1
                  /\ cancel(FALSE, "", wpc, [spc EXCEPT ![j] = "scan"], "feed",
                            recvqLine, sendqLine)
             ELSE /\ chTarget' = recvTarget(chTarget).rest
                  /\ UNCHANGED pub
                  /\ cancel(FALSE, "", wpc, [spc EXCEPT ![j] = "scan"], doPc,
                            recvqLine, sendqLine)
                  /\ UNCHANGED fi
          /\ UNCHANGED <<recvqTarget, serr, egScanErr>>
       \/ /\ chTargetClosed = 0 /\ chTarget = <<>>
          /\ recvqTarget' = Append(recvqTarget, j)
          /\ cancel(FALSE, "", wpc, [spc EXCEPT ![j] = "rparked"], doPc,
                    recvqLine, sendqLine)
          /\ UNCHANGED <<chTarget, stg, slc, fi, serr, egScanErr, tvars>>
    /\ UNCHANGED <<cvars, pvars, rvars, fvars, stderr, files, param,
                   faults, wi, retErr, egScanNil, chLine, chLineClosed,
                   chTargetClosed, wline, werr, egWriteErr, shard, shardFile, wdec,
                   wfails, reader, cleanups, wrapPc, wrapErr>>

\* scanner.Scan() and, with a line, the select that pushes it: <-ctx.Done()
\* or chOut <- line. A read from a stream that was released meanwhile may
\* fail or may still be served from the scanner's buffer.
S_scan(j) ==
    /\ spc[j] = "scan"
    /\ \/ /\ \/ /\ faults < MaxFaults
                /\ faults' = faults + 1
             \/ /\ reader[stg[j]] = "released"
                /\ UNCHANGED faults
          /\ SReturn(j, Wrap("Scan", <<"scan failed">>), sendqLine)
          /\ UNCHANGED <<chLine, slc, wline, stderr>>
       \/ /\ slc[j] < files[stg[j]]
          /\ Done
          /\ SReturn(j, ErrCanceled, sendqLine)
          /\ UNCHANGED <<faults, chLine, slc, wline, stderr>>
       \/ /\ slc[j] < files[stg[j]]
          /\ chLineClosed > 0
          /\ cancel(FALSE, "", wpc, [spc EXCEPT ![j] = "panic"], doPc,
                    recvqLine, sendqLine)
          /\ UNCHANGED <<faults, chLine, slc, wline, serr, egScanErr, stderr>>
       \/ /\ slc[j] < files[stg[j]]
          /\ chLineClosed = 0
          /\ recvqLine # <<>>
          /\ wline' = [wline EXCEPT ![Head(recvqLine)] = <<stg[j], slc[j] + 1>>]
          /\ slc' = [slc EXCEPT ![j] = @ + 1]
          /\ stderr' = ProgressLine(stg[j], slc[j] + 1)
          /\ cancel(FALSE, "", [wpc EXCEPT ![Head(recvqLine)] = "write"], spc, doPc,
                    Tail(recvqLine), sendqLine)
          /\ UNCHANGED <<faults, chLine, serr, egScanErr>>
       \/ /\ slc[j] < files[stg[j]]
          /\ chLineClosed = 0
          /\ recvqLine = <<>>
          /\ Len(chLine) < capLine
          /\ chLine' = Append(chLine, <<stg[j], slc[j] + 1>>)
          /\ slc' = [slc EXCEPT ![j] = @ + 1]
          /\ stderr' = ProgressLine(stg[j], slc[j] + 1)
          /\ cancel(FALSE, "", wpc, spc, doPc, recvqLine, sendqLine)
          /\ UNCHANGED <<faults, wline, serr, egScanErr>>
       \/ /\ slc[j] < files[stg[j]]
          /\ ~Done /\ chLineClosed = 0 /\ recvqLine = <<>>
          /\ Len(chLine) >= capLine
          /\ cancel(FALSE, "", wpc, [spc EXCEPT ![j] = "sparked"], doPc,
                    recvqLine, Append(sendqLine, j))
          /\ UNCHANGED <<faults, chLine, slc, wline, serr, egScanErr, stderr>>
       \/ /\ slc[j] = files[stg[j]]
          /\ stderr' = Fprintf(param.Verbose, <<"total", stg[j], slc[j]>>)
          /\ cancel(FALSE, "", wpc, [spc EXCEPT ![j] = "range"], doPc,
                    recvqLine, sendqLine)
          /\ UNCHANGED <<faults, chLine, slc, wline, serr, egScanErr>>
    /\ UNCHANGED <<cvars, pvars, rvars, tvars, fvars, files, param, wi, fi, retErr, egScanNil,
                   chLineClosed, chTarget, chTargetClosed, recvqTarget, werr,
                   egWriteErr, shard, shardFile, wdec, wfails, stg, reader, cleanups,
                   wrapPc, wrapErr>>

\* a scan worker whose blocked send a write worker has completed: lc++ and
\* the progress line, then the next scanner.Scan()
S_sent(j) ==
    /\ spc[j] = "sent"
    /\ slc' = [slc EXCEPT ![j] = @ + 1]
    /\ stderr' = ProgressLine(stg[j], slc[j] + 1)
    /\ cancel(FALSE, "", wpc, [spc EXCEPT ![j] = "scan"], doPc, recvqLine, sendqLine)
    /\ UNCHANGED <<cvars, pvars, rvars, tvars,
                   fvars, files, param, faults, wi, fi, retErr, egScanNil,
                   chLine, chLineClosed, chTarget, chTargetClosed, recvqTarget,
                   wline, werr, egWriteErr, shard, shardFile, wdec, wfails, stg,
                   serr, egScanErr, reader, cleanups, wrapPc, wrapErr>>

\* a scan worker woken from a blocked operation: by the cancel (return
\* ctx.Err()) or by close(chTarget) (the range loop ends, return nil)
S_woken(j) ==
    /\ spc[j] \in {"ctxErr", "rclosed"}
    /\ SReturn(j, IF spc[j] = "ctxErr" THEN ErrCanceled ELSE Nil, sendqLine)
    /\ UNCHANGED <<cvars, pvars, rvars, tvars, fvars, stderr, files, param,
                   faults, wi, fi, retErr, egScanNil, chLine,
                   chLineClosed, chTarget, chTargetClosed, recvqTarget, wline,
                   werr, egWriteErr, shard, shardFile, wdec, wfails, stg, slc,
                   reader, cleanups, wrapPc, wrapErr>>

\* ------------------------------------------------------------- feeder
\* a createReader whose deferred func does not run its cleanups
createReader_NoCleanup(o) ==
    [opened |-> o # "openInput", ran |-> <<>>,
     ret |-> [v |-> "nil", cleanup |-> "nil", err |-> <<o, "failed">>]]

\* serviceImpl.createReader with the outcome o: "openInput" (openInput
\* fails), "decorateReader" (the input opens, decorateReader fails) or "ok".
\* opened: the input was opened; ran: the cleanups its deferred func ran;
\* ret: the reader, the release handle and the error it returns
createReader(o) ==
    LET c0 == [funcs |-> <<>>, once |-> FALSE]
        c1 == IF o = "openInput" THEN c0 ELSE add(c0, "cleanup1")
        c2 == IF o = "ok" THEN add(c1, "cleanup2") ELSE c1 IN
    [opened |-> o # "openInput",
     ran |-> IF o = "ok" THEN <<>> ELSE do(c2).called,
     ret |-> IF o = "ok" THEN [v |-> "reader", cleanup |-> "cleanups.do", err |-> Nil]
             ELSE [v |-> "nil", cleanup |-> "nil", err |-> <<o, "failed">>]]

\* the close counts rc after the release handles of the inputs in `ran` ran
Closes(rc, ran) ==
    [f \in DOMAIN rc |-> rc[f] + Cardinality({k \in 1 .. Len(ran) : ran[k] = f})]

\* the input streams after the release actions `called` have run
Release(rd, ran) ==
    [f \in DOMAIN rd |-> IF f \in Range(ran) THEN "released" ELSE rd[f]]

\* ParallelFileScan up to its loop: make(chan readTarget, parallelism) and
\* ParallelScan, which starts the scan workers
ParallelScan ==
    /\ doPc = "ParallelFileScan"
    /\ cancel(FALSE, "", wpc, [j \in Scanners |-> "range"], "feed",
              recvqLine, sendqLine)
    /\ UNCHANGED <<cvars, pvars, rvars, tvars, fvars, stderr, files, param,
                   faults, wi, fi, retErr, egScanNil, chLine,
                   chLineClosed, chTarget, chTargetClosed, recvqTarget, wline,
                   werr, egWriteErr, shard, shardFile, wdec, wfails, stg, slc,
                   serr, egScanErr, reader, cleanups, wrapPc, wrapErr>>

\* ParallelFileScan returns (nil, err): its deferred func runs cleanups.do()
\* and then cancel(); Do appends the error and keeps the nil group
FeederFail(err, rd, cl, rc) ==
    /\ reader' = Release(rd, do(cl).called)
    /\ rdCloses' = Closes(rc, do(cl).called)
    /\ cleanups' = do(cl).c
    /\ retErr' = Append(retErr, Wrap("ParallelFileScan", err))
    /\ egScanNil' = TRUE
    /\ cancel(TRUE, "ParallelFileScan", wpc, spc, "scanWait", recvqLine, sendqLine)

\* a feeder that registers the release handle only after its send
cleanupsAtSelect_AddAfterSend(cl, f) == cl

\* the feeder's cleanups when it reaches its select with input f opened:
\* cleanups.add(cleanup) comes before the select
cleanupsAtSelect(cl, f) == add(cl, f)

\* one iteration of the feeder loop: createReader, cleanups.add, and the
\* select that publishes the readTarget
Feed ==
    LET Opened == /\ rret' = createReader("ok").ret
                  /\ rdOpens' = [rdOpens EXCEPT ![fi] = @ + 1] IN
    /\ doPc = "feed"
    /\ fi <= Len(files)
    /\ stderr' = Fprintf(param.Verbose, <<"path", fi>>)
    /\ \/ /\ faults < MaxFaults
          /\ faults' = faults + 1
          /\ \E o \in {"openInput", "decorateReader"} :
                LET cr == createReader(o)
                    n == Cardinality({k \in 1 .. Len(cr.ran) : cr.ran[k] = "cleanup1"}) IN
                /\ rret' = cr.ret
                /\ rdOpens' = [rdOpens EXCEPT ![fi] = @ + (IF cr.opened THEN 1 ELSE 0)]
                /\ FeederFail(Wrap("createReader", cr.ret.err),
                              [reader EXCEPT ![fi] = IF n > 0 THEN "released"
                                                     ELSE IF cr.opened THEN "open" ELSE @],
                              cleanups, [rdCloses EXCEPT ![fi] = @ + n])
          /\ UNCHANGED <<fi, chTarget, recvqTarget, stg, slc, tvars>>
       \/ /\ Done
          /\ Opened
          /\ FeederFail(ErrCanceled, [reader EXCEPT ![fi] = "open"],
                        cleanupsAtSelect(cleanups, fi), rdCloses)
          /\ UNCHANGED <<faults, fi, chTarget, recvqTarget, stg, slc, tvars>>
       \/ /\ recvqTarget # <<>>
          /\ Opened
          /\ UNCHANGED rdCloses
          /\ reader' = [reader EXCEPT ![fi] = "open"]
          /\ cleanups' = add(cleanups, fi)
          /\ stg' = [stg EXCEPT ![Head(recvqTarget)] = fi]
          /\ slc' = [slc EXCEPT ![Head(recvqTarget)] = 0]
          /\ recvqTarget' = Tail(recvqTarget)
          /\ pub' = Append(pub, fi)
          /\ nrecv' = [nrecv EXCEPT ![fi] = @ + 1]
          /\ fi' = fi + 1
          /\ cancel(FALSE, "", wpc, [spc EXCEPT ![Head(recvqTarget)] = "scan"], doPc,
                    recvqLine, sendqLine)
          /\ UNCHANGED <<faults, chTarget, retErr, egScanNil>>
       \/ /\ recvqTarget = <<>>
          /\ Len(chTarget) < capTarget
          /\ Opened
          /\ UNCHANGED rdCloses
          /\ reader' = [reader EXCEPT ![fi] = "open"]
          /\ cleanups' = add(cleanups, fi)
          /\ chTarget' = Append(chTarget, fi)
          /\ pub' = Append(pub, fi)
          /\ UNCHANGED nrecv
          /\ fi' = fi + 1
          /\ cancel(FALSE, "", wpc, spc, doPc, recvqLine, sendqLine)
          /\ UNCHANGED <<faults, recvqTarget, stg, slc, retErr, egScanNil>>
       \/ /\ ~Done /\ recvqTarget = <<>>
          /\ Len(chTarget) >= capTarget
          /\ Opened
          /\ UNCHANGED rdCloses
          /\ reader' = [reader EXCEPT ![fi] = "open"]
          /\ cleanups' = cleanupsAtSelect(cleanups, fi)
          /\ cancel(FALSE, "", wpc, spc, "feedParked", recvqLine, sendqLine)
          /\ UNCHANGED <<faults, fi, chTarget, recvqTarget, stg, slc, retErr, egScanNil,
                         tvars>>
    /\ UNCHANGED <<cvars, pvars, fvars, files, param, wi, chLine, chLineClosed,
                   chTargetClosed, wline, werr, egWriteErr, shard, shardFile, wdec,
                   wfails, serr, egScanErr, wrapPc, wrapErr>>

\* the feeder woken from its blocked send by the cancel: return nil, ctx.Err()
FeedCancelled ==
    /\ doPc = "feedCtxErr"
    /\ FeederFail(ErrCanceled, reader, cleanups, rdCloses)
    /\ UNCHANGED <<cvars, pvars, rret, rdOpens, tvars, fvars, stderr, files, param,
                   faults, wi, fi, chLine, chLineClosed, chTarget,
                   chTargetClosed, recvqTarget, wline, werr, egWriteErr, shard,
                   shardFile, wdec, wfails, stg, slc, serr, egScanErr, wrapPc,
                   wrapErr>>

\* after the loop: close(chTarget), which ends the range of every scan worker
\* parked on it, and eg.Go of the goroutine that joins the scan group
FeedClose ==
    /\ doPc = "feed"
    /\ fi > Len(files)
    /\ chTargetClosed' = chTargetClosed + 1
    /\ recvqTarget' = <<>>
    /\ wrapPc' = "waiting"
    /\ cancel(FALSE, "", wpc,
              [j \in Scanners |-> IF spc[j] = "rparked" THEN "rclosed" ELSE spc[j]],
              "scanWait", recvqLine, sendqLine)
    /\ UNCHANGED <<cvars, pvars, rvars, tvars, fvars, stderr, files, param,
                   faults, wi, fi, retErr, egScanNil, chLine,
                   chLineClosed, chTarget, wline, werr, egWriteErr, shard,
                   shardFile, wdec, wfails, stg, slc, serr, egScanErr, reader,
                   cleanups, wrapErr>>

\* the goroutine ParallelFileScan starts last: egScan.Wait(), cancel() when
\* it returned an error, then the deferred cleanups.do()
ScanJoin ==
    /\ wrapPc = "waiting"
    /\ \A j \in Scanners : spc[j] = "done"
    /\ wrapPc' = "done"
    /\ wrapErr' = egScanErr
    /\ reader' = Release(reader, do(cleanups).called)
    /\ rdCloses' = Closes(rdCloses, do(cleanups).called)
    /\ cleanups' = do(cleanups).c
    /\ cancel(egScanErr # Nil, "ParallelFileScan.Wait", wpc, spc, doPc,
              recvqLine, sendqLine)
    /\ UNCHANGED <<cvars, pvars, rret, rdOpens, tvars, fvars, stderr, files, param,
                   faults, wi, fi, retErr, egScanNil, chLine,
                   chLineClosed, chTarget, chTargetClosed, recvqTarget, wline,
                   werr, egWriteErr, shard, shardFile, wdec, wfails, stg, slc,
                   serr, egScanErr>>

\* ------------------------------------------------------------- Do
\* a Do that closes chLine without waiting for the scan stage
egScanWait_NoWait == TRUE

\* egScan.Wait() in Do returns once the joining goroutine has returned
egScanWaitReturned == wrapPc = "done"

\* egWrite.Wait() in Do returns once every write worker has returned
egWriteWaitReturned == \A i \in Writers : wpc[i] = "done"

\* Do: egScan.Wait() on the group ParallelFileScan returned, then
\* close(chLine). Wait on a nil group is a nil pointer dereference: Do
\* panics, and its deferred cancel() runs.
DoScanWait ==
    /\ doPc = "scanWait"
    /\ \/ /\ egScanNil
          /\ cancel(TRUE, "Do", wpc, spc, "panicked", recvqLine, sendqLine)
          /\ UNCHANGED <<retErr, chLineClosed>>
       \/ /\ ~egScanNil
          /\ egScanWaitReturned
          /\ retErr' = IF wrapErr # Nil
                       THEN Append(retErr, Wrap("ParallelFileScan.Wait", wrapErr))
                       ELSE retErr
          /\ chLineClosed' = chLineClosed + 1
          /\ cancel(FALSE, "",
                    [i \in Writers |-> IF wpc[i] = "parked" THEN "closed" ELSE wpc[i]],
                    [j \in Scanners |-> IF spc[j] = "sparked" THEN "panic" ELSE spc[j]],
                    "writeWait", <<>>, <<>>)
    /\ UNCHANGED <<cvars, pvars, rvars, tvars, fvars, stderr, files, param,
                   faults, wi, fi, egScanNil, chLine, chTarget,
                   chTargetClosed, recvqTarget, wline, werr, egWriteErr, shard,
                   shardFile, wdec, wfails, stg, slc, serr, egScanErr, reader,
                   cleanups, wrapPc, wrapErr>>

\* Do: egWrite.Wait(), return retErr; the deferred cancel() runs
DoWriteWait ==
    /\ doPc = "writeWait"
    /\ egWriteWaitReturned
    /\ retErr' = IF egWriteErr # Nil
                 THEN Append(retErr, Wrap("ParallelWrite.Wait", egWriteErr))
                 ELSE retErr
    /\ cancel(TRUE, "Do", wpc, spc, "returned", recvqLine, sendqLine)
    /\ UNCHANGED <<cvars, pvars, rvars, tvars, fvars, stderr, files, param,
                   faults, wi, fi, egScanNil, chLine, chLineClosed,
                   chTarget, chTargetClosed, recvqTarget, wline, werr, egWriteErr,
                   shard, shardFile, wdec, wfails, stg, slc, serr, egScanErr,
                   reader, cleanups, wrapPc, wrapErr>>

\* the caller cancels the context it passed to Do
ExternalCancel ==
    /\ doPc \notin {"returned", "panicked"}
    /\ ~Done
    /\ faults < MaxFaults
    /\ faults' = faults + 1
    /\ cancel(TRUE, "caller", wpc, spc, doPc, recvqLine, sendqLine)
    /\ UNCHANGED <<cvars, pvars, rvars, tvars, fvars, stderr, files, param,
                   wi, fi, retErr, egScanNil, chLine, chLineClosed,
                   chTarget, chTargetClosed, recvqTarget, wline, werr, egWriteErr,
                   shard, shardFile, wdec, wfails, stg, slc, serr, egScanErr,
                   reader, cleanups, wrapPc, wrapErr>>

\* ------------------------------------------------------------- cleanups
\* cs.add(f): f is the next action; with the cleanups whose funcs return an
\* error it may be one that fails
C_add ==
    /\ Len(cs.funcs) < MaxAdds
    /\ \E fails \in BOOLEAN :
         /\ fails => impl = "multierror"
         /\ cs' = add(cs, [id |-> Len(cs.funcs) + 1, fails |-> fails])
    /\ UNCHANGED <<impl, called, doRet, ndo, kvars>>
    /\ UNCHANGED <<pvars, rvars, tvars, fvars, stderr, files, param, ctxCause, faults, doPc,
                   wi, fi, retErr, egScanNil,
                   chLine, chLineClosed, recvqLine, sendqLine, chTarget,
                   chTargetClosed, recvqTarget, wpc, wline, werr, egWriteErr,
                   shard, shardFile, wdec, wfails, spc, stg, slc, serr, egScanErr,
                   reader, cleanups, wrapPc, wrapErr>>

\* cs.do()
C_do ==
    /\ ndo < MaxDo
    /\ ndo' = ndo + 1
    /\ IF impl = "defer"
       THEN /\ called' = called \o do(cs).called
            /\ cs' = do(cs).c
            /\ doRet' = NilError
       ELSE /\ called' = called \o do_multierror(cs).called
            /\ cs' = do_multierror(cs).c
            /\ doRet' = do_multierror(cs).err
    /\ UNCHANGED <<impl, kvars>>
    /\ UNCHANGED <<pvars, rvars, tvars, fvars, stderr, files, param, ctxCause, faults, doPc,
                   wi, fi, retErr, egScanNil,
                   chLine, chLineClosed, recvqLine, sendqLine, chTarget,
                   chTargetClosed, recvqTarget, wpc, wline, werr, egWriteErr,
                   shard, shardFile, wdec, wfails, spc, stg, slc, serr, egScanErr,
                   reader, cleanups, wrapPc, wrapErr>>

\* a cleanups stack of either kind, on its own
CleanupInit ==
    /\ InitDo({<<>>}, {[Split |-> 1, Parallelism |-> 1, Compress |-> "",
                          Verbose |-> FALSE, Prefix |-> "out/file-"]}, 0, "serviceImpl")
    /\ \E k \in {"defer", "multierror"} : InitCleanups(k)
    /\ InitPaths({0})

CleanupNext ==
    \/ C_add
    \/ C_do

CleanupSpec == CleanupInit /\ [][CleanupNext]_vars

\* ------------------------------------------------------------- specification
DoStep ==
    \/ ParallelWrite
    \/ ParallelScan
    \/ Feed
    \/ FeedCancelled
    \/ FeedClose
    \/ DoScanWait
    \/ DoWriteWait

WStep(i) ==
    \/ W_createWriter(i)
    \/ W_select(i)
    \/ W_write(i)
    \/ W_woken(i)
    \/ W_egDone(i)

SStep(j) ==
    \/ S_range(j)
    \/ S_scan(j)
    \/ S_sent(j)
    \/ S_woken(j)
    \/ S_egDone(j)

\* a step of the program itself
Progress ==
    \/ DoStep
    \/ \E i \in Writers : WStep(i)
    \/ \E j \in Scanners : SStep(j)
    \/ ScanJoin

Next ==
    \/ Progress
    \/ ExternalCancel

Spec == Init /\ [][Next]_vars

\* every goroutine that can take a step eventually takes one
Fairness ==
    /\ WF_vars(DoStep)
    /\ WF_vars(ScanJoin)
    /\ \A i \in 0 .. (MaxSplit - 1) : WF_vars(i \in Writers /\ WStep(i))
    /\ \A j \in 1 .. MaxPar : WF_vars(j \in Scanners /\ SStep(j))

\* the runs the liveness properties are checked on: one mode name the write
\* stage accepts and one it rejects, with one worker in at least one stage
LiveInit ==
    /\ Init
    /\ param.Compress \in {"none", "lzo"}
    /\ (param.Split = 1 \/ param.Parallelism = 1)

FairSpec == LiveInit /\ [][Next]_vars /\ Fairness

\* Do with one shard and one scan worker, on inputs of up to MaxSeqLines lines
SeqInit ==
    /\ InitDo(UNION {[1 .. n -> 0 .. MaxSeqLines] : n \in 0 .. MaxFiles},
              [Split : {1}, Parallelism : {1}, Compress : {"", "none"},
               Verbose : {FALSE}, Prefix : {"out/file-"}], 0, "serviceImpl")
    /\ InitCleanups("defer")
    /\ InitPaths({0})

SeqSpec == SeqInit /\ [][Next]_vars

\* Do with and without Verbose: on short inputs in an environment that may
\* fail, and on one input long enough for a progress line in an environment
\* that does not fail and whose service hands out writers that drop the data
VerboseInit ==
    /\ \/ InitDo(UNION {[1 .. n -> 0 .. MaxLines] : n \in 0 .. MaxFiles},
                 [Split : {1}, Parallelism : 1 .. MaxPar, Compress : {""},
                  Verbose : BOOLEAN, Prefix : {"out/file-"}], 0, "serviceImpl")
       \/ InitDo({<<ProgressEvery + 1>>},
                 [Split : {1}, Parallelism : {1}, Compress : {""},
                  Verbose : {TRUE}, Prefix : {"out/file-"}], MaxFaults, "discard")
    /\ InitCleanups("defer")
    /\ InitPaths({0})

VerboseSpec == VerboseInit /\ [][Next]_vars

\* the loop of ParallelWrite over the shard indices on its own: the path of
\* the next index
P_fn ==
    /\ pi < pn
    /\ paths' = Append(paths, ShardPath(pi))
    /\ pi' = pi + 1
    /\ UNCHANGED pn
    /\ UNCHANGED <<cvars, rvars, tvars, fvars, stderr, files, param, ctxCause, faults,
                   doPc,
                   wi, fi, retErr, egScanNil,
                   chLine, chLineClosed, recvqLine, sendqLine, chTarget,
                   chTargetClosed, recvqTarget, wpc, wline, werr, egWriteErr,
                   shard, shardFile, wdec, wfails, spc, stg, slc, serr, egScanErr,
                   reader, cleanups, wrapPc, wrapErr>>

\* that loop for shard counts up to MaxIndex + 1, every mode name and two
\* prefixes
PathInit ==
    /\ InitDo({<<>>},
              [Split : {1}, Parallelism : {1}, Compress : ModeNames,
               Verbose : {FALSE}, Prefix : {"", "out/file-"}], 0, "serviceImpl")
    /\ InitCleanups("defer")
    /\ InitPaths({1, MaxIndex + 1})

PathSpec == PathInit /\ [][P_fn]_vars

\* ------------------------------------------------------------- properties
Contains(err, tag) == \E k \in 1 .. Len(err) : err[k] = tag

\* where line l was written to a shard and terminated by a newline
LinePositions(l) ==
    UNION {{<<i, n>> : n \in {k \in 1 .. (Len(shard[i]) - 1) :
                                shard[i][k] = l /\ shard[i][k + 1] = LF}} :
           i \in Writers}

\* the newline-terminated records of all shards
Records == UNION {{<<i, k>> : k \in {n \in 1 .. Len(shard[i]) : shard[i][n] = LF}} :
                  i \in Writers}

Terminal == doPc \in {"returned", "panicked"}

UnknownMode == param.Compress \notin {"", "none", "gzip", "gz"}

MkdirAllFailed ==
    retErr # <<>> /\ Contains(retErr[1], "mkdirAll")

CreateWriterFailed(i) == Contains(werr[i], "createWriter")

ScanFailed(j) == Contains(serr[j], "Scan")

\* C1: when Do returns an empty error, every input line has been written to
\* exactly one shard exactly once, and the shards hold exactly L lines.
C1_EveryLineWrittenOnce ==
    (doPc = "returned" /\ retErr = <<>>) =>
        /\ \A l \in AllLines : Cardinality(LinePositions(l)) = 1
        /\ Cardinality(Records) = Cardinality(AllLines)

\* C2: Do never terminates abnormally: it never panics, whatever fails.
C2_DoNeverPanics == doPc # "panicked"

\* C3: every run ends with Do returned to its caller: when no goroutine of
\* the program can take a step any more, Do has returned.
C3_DoReturns == (~ENABLED Progress) => doPc = "returned"

\* C4: a feeder blocked on the full read-target queue when the cancellation
\* signal fires is woken by it, publishes nothing more, and returns the
\* cancellation error; it never stays blocked once the signal is set.
C4_FeederLeavesBlockedSend ==
    /\ [](~(doPc = "feedParked" /\ Done))
    /\ [][/\ (doPc = "feedParked" /\ Done') => doPc' = "feedCtxErr"
          /\ (doPc = "feedCtxErr" /\ doPc' # "feedCtxErr") =>
                /\ doPc' = "scanWait"
                /\ egScanNil'
                /\ retErr' = Append(retErr, Wrap("ParallelFileScan", ErrCanceled))
                /\ fi' = fi
                /\ chTarget' = chTarget]_vars
    /\ ((doPc = "feedCtxErr") ~> (doPc # "feedCtxErr"))

C4_Witness ==
    /\ doPc = "feedCtxErr"
    /\ Len(chTarget) = param.Parallelism
    /\ fi <= Len(files)

\* C5: chTarget is closed at most once and only after every path was
\* published, chLine at most once and only after every scan worker returned;
\* both are closed once Do got past the scan join; no scan worker sends on
\* the closed chLine; without cancellation no sent line is left unreceived.
C5_ShutdownSequenced ==
    /\ chTargetClosed <= 1
    /\ chTargetClosed = 1 => (fi = Len(files) + 1 /\ doPc \notin {"feed", "feedParked"})
    /\ chLineClosed <= 1
    /\ chLineClosed = 1 => (chTargetClosed = 1 /\ \A j \in Scanners : spc[j] = "done")
    /\ doPc = "writeWait" => (chTargetClosed = 1 /\ chLineClosed = 1)
    /\ \A j \in Scanners : spc[j] # "panic"
    /\ (doPc = "returned" /\ ctxCause = "Do") => (chLineClosed = 1 /\ chLine = <<>>)

C5_Witness ==
    /\ doPc = "returned"
    /\ ctxCause = "Do"
    /\ chLineClosed = 1
    /\ Len(files) = MaxFiles
    /\ \A f \in Inputs : files[f] = MaxLines
    /\ Cardinality(Records) = Cardinality(AllLines)

\* C6: a failed write of a line or of its newline makes Do return a
\* non-empty error.
C6_WriteFailureReported ==
    (doPc = "returned" /\ wfails > 0) => retErr # <<>>

\* C7: when a scan worker's scan fails, the signal is set, and when that
\* failure is what set it (ctxCause = "scan") Do returns an error that
\* contains the scan error.
C7_ScanErrorReturned ==
    /\ \A j \in Scanners : ScanFailed(j) => Done
    /\ (Terminal /\ ctxCause = "scan") =>
          /\ doPc = "returned"
          /\ \E k \in 1 .. Len(retErr) : Contains(retErr[k], "Scan")

C9_UnknownModeBeforeWork ==
    (UnknownMode /\ (Terminal \/ \E i \in Writers : werr[i] # Nil)) =>
        /\ \A i \in Writers : shardFile[i] = "none" /\ shard[i] = <<>>
        /\ \A f \in Inputs : reader[f] = "unopened"
        /\ \A j \in Scanners : slc[j] = 0
        /\ chLine = <<>>

Wraps(err, sub) ==
    /\ Len(sub) <= Len(err)
    /\ SubSeq(err, Len(err) - Len(sub) + 1, Len(err)) = sub

\* the combined error Do holds has an entry that wraps sub
Reports(sub) == \E k \in 1 .. Len(retErr) : Wraps(retErr[k], sub)

\* worker errors that are not the worker's observation of the signal
OwnError(err) == err # Nil /\ err # ErrCanceled

ScanStageFailed == egScanNil \/ wrapErr # Nil

\* C11: once the scan stage or the feeder has failed, Do still ends by
\* returning, after every write worker has returned, and the error it
\* returns holds the scan stage's error and, when the write stage failed
\* too, the write stage's error as well.
C11_BothStageErrorsReturned ==
    (Terminal /\ ScanStageFailed) =>
        /\ doPc = "returned"
        /\ \A i \in Writers : wpc[i] = "done"
        /\ wrapErr # Nil => Reports(Wrap("ParallelFileScan.Wait", wrapErr))
        /\ egWriteErr # Nil => Reports(Wrap("ParallelWrite.Wait", egWriteErr))

\* C12: when the write stage has been joined, the error of its join wraps
\* the own error of every write worker that failed, and likewise for the
\* scan stage and its scan workers.
C12_StageJoinHasEveryWorkerError ==
    /\ doPc = "returned" /\ (\A i \in Writers : wpc[i] = "done") =>
          \A i \in Writers : OwnError(werr[i]) => Wraps(egWriteErr, werr[i])
    /\ wrapPc = "done" =>
          \A j \in Scanners : OwnError(serr[j]) => Wraps(wrapErr, serr[j])

\* C13: when a worker failed with an error of its own and Do returns, the
\* combined error reports such a root cause and none of its entries is the
\* cancellation error of a worker or stage that only observed the signal.
C13_NoCancellationErrorReported ==
    (/\ doPc = "returned"
     /\ \/ \E i \in Writers : OwnError(werr[i])
        \/ \E j \in Scanners : OwnError(serr[j])) =>
        /\ \E k \in 1 .. Len(retErr) : ~Wraps(retErr[k], ErrCanceled)
        /\ \A k \in 1 .. Len(retErr) : ~Wraps(retErr[k], ErrCanceled)

\* ------------------------------------------------------------- cleanups
\* the ids of the actions registered with cs, in registration order
Registered == [k \in 1 .. Len(cs.funcs) |-> cs.funcs[k].id]

Ids(fs) == [k \in 1 .. Len(fs) |-> fs[k].id]

\* C14: the first call of do executes all registered actions, in exactly the
\* reverse of their registration order; with none registered it executes
\* nothing.
C14_DoRunsInReverseOrder ==
    [][(ndo = 0 /\ ndo' = 1) =>
          /\ Ids(called') = Reverse(Registered)
          /\ (cs.funcs = <<>> => called' = <<>>)]_vars

C14_Witness ==
    /\ ndo = 1
    /\ Ids(called) = <<3, 2, 1>>

\* C15: every registered action is executed at most once, and a second or
\* later call of do executes no action.
C15_DoIsIdempotent ==
    /\ [](\A k \in 1 .. Len(called) : \A m \in 1 .. Len(called) :
            called[k].id = called[m].id => k = m)
    /\ [][(ndo >= 1 /\ ndo' = ndo + 1) => called' = called]_vars

C15_Witness ==
    /\ ndo = 2
    /\ Len(called) = 2
    /\ Len(cs.funcs) = 3

\* C16: do runs every registered action even when one that ran before it
\* returned an error, and the error do returns holds the error of every
\* action that failed.
C16_DoMergesEveryError ==
    [][(impl = "multierror" /\ ndo = 0 /\ ndo' = 1) =>
          /\ Ids(called') = Reverse(Registered)
          /\ \A k \in 1 .. Len(cs.funcs) :
                cs.funcs[k].fails =>
                    \E m \in 1 .. Len(doRet'.Errors) :
                        doRet'.Errors[m] = callFunc(cs.funcs[k])
          /\ Len(doRet'.Errors) = Cardinality({k \in 1 .. Len(cs.funcs) : cs.funcs[k].fails})]_vars

C16_Witness ==
    /\ impl = "multierror"
    /\ ndo = 1
    /\ Len(doRet.Errors) = 2
    /\ Len(called) = 3
    /\ called[1].fails

\* ------------------------------------------------------------- shard files
\* the write workers that have been started
Started == {i \in DOMAIN wpc : wpc[i] # "idle"}

\* C20: the write workers started are those of the shard indices below the
\* loop index, all of 0 .. Split-1 once ParallelWrite has returned a group;
\* each shard file is created at most once, by its worker, is written only
\* by that worker while it is open, and is closed exactly once when the
\* worker ends, on the close of the line queue and on cancellation alike.
C20_ShardFileOwnedOpenedClosedOnce ==
    /\ [](/\ Started = 0 .. (wi - 1)
          /\ doPc \notin {"ParallelWrite", "returned"} => Started = 0 .. (param.Split - 1)
          /\ \A i \in Writers :
                /\ fpOpens[i] <= 1
                /\ fpCloses[i] <= fpOpens[i]
                /\ wpc[i] \in {"idle", "create"} => fpOpens[i] = 0
                /\ wpc[i] \in {"sel", "parked", "write", "ctxErr", "closed"} =>
                        (fpOpens[i] = 1 /\ fpCloses[i] = 0 /\ shardFile[i] = "open")
                /\ wpc[i] \in {"returning", "done"} =>
                        (fpCloses[i] = fpOpens[i] /\ shardFile[i] # "open"))
    /\ [][\A i \in Writers :
            /\ shard'[i] # shard[i] =>
                  (wpc[i] = "write" /\ wpc'[i] = "sel" /\ shardFile[i] = "open")
            /\ fpOpens'[i] # fpOpens[i] => wpc[i] = "create"
            /\ fpCloses'[i] # fpCloses[i] =>
                  (wpc[i] # wpc'[i] /\ wpc'[i] \in {"returning", "done"})]_vars

C20_Witness ==
    /\ param.Split = MaxSplit
    /\ \E i \in Writers : wpc[i] = "done" /\ werr[i] = ErrCanceled /\ fpCloses[i] = 1
    /\ \E i \in Writers : wpc[i] = "done" /\ werr[i] = Nil /\ fpCloses[i] = 1
                           /\ shard[i] # <<>>

\* ------------------------------------------------------------- scan workers
\* scan worker j has received a readTarget and has not finished with it
HoldsTarget(j) == spc[j] \in {"scan", "sparked", "sent", "ctxErr", "panic"}

\* the inputs that are being scanned
BeingScanned == {f \in Inputs : \E j \in DOMAIN spc : HoldsTarget(j) /\ stg[j] = f}

\* C19: once ParallelScan has run exactly Parallelism scan workers exist;
\* no two of them hold the same readTarget, a readTarget a worker holds has
\* left the queue, and at most Parallelism inputs are being scanned.
C19_AtMostParallelismScans ==
    /\ Cardinality({j \in DOMAIN spc : spc[j] # "idle"}) =
            IF doPc \in {"ParallelWrite", "ParallelFileScan"} \/ MkdirAllFailed
            THEN 0 ELSE param.Parallelism
    /\ \A j \in DOMAIN spc : \A k \in DOMAIN spc :
            (HoldsTarget(j) /\ HoldsTarget(k) /\ stg[j] = stg[k]) => j = k
    /\ \A j \in DOMAIN spc :
            HoldsTarget(j) => (stg[j] \in Inputs /\ stg[j] < fi /\ stg[j] \notin Range(chTarget))
    /\ Cardinality(BeingScanned) <= param.Parallelism

C19_Witness ==
    /\ param.Parallelism = 1
    /\ Cardinality(BeingScanned) = 1
    /\ chTarget # <<>>

\* ------------------------------------------------------------- one shard
\* the lines of input f from line k on, each followed by one newline
RECURSIVE FileContent(_, _)
FileContent(f, k) ==
    IF k > files[f] THEN <<>> ELSE <<<<f, k>>, LF>> \o FileContent(f, k + 1)

\* the content of the inputs from input f on, in input order
RECURSIVE InputContent(_)
InputContent(f) ==
    IF f > Len(files) THEN <<>> ELSE FileContent(f, 1) \o InputContent(f + 1)

IsPrefix(s, q) == Len(s) <= Len(q) /\ SubSeq(q, 1, Len(s)) = s

\* C17: with one shard and one scan worker, in a run in which nothing
\* failed and nobody cancelled, Do returns an empty error and the shard then
\* holds exactly the lines of the inputs in input order, each followed by
\* one newline; until then it holds a beginning of that content.
C17_SingleShardKeepsInputOrder ==
    (param.Split = 1 /\ param.Parallelism = 1 /\ faults = 0) =>
        /\ doPc # "panicked"
        /\ IsPrefix(shard[0], InputContent(1))
        /\ doPc = "returned" => (retErr = <<>> /\ shard[0] = InputContent(1))

C17_Witness ==
    /\ files = <<MaxSeqLines>>
    /\ doPc = "returned"
    /\ retErr = <<>>
    /\ shard[0] = <<<<1, 1>>, LF, <<1, 2>>, LF, <<1, 3>>, LF>>

\* ------------------------------------------------------------- diagnostics
\* the positions of stderr that hold the entry e
PrintedAt(e) == {k \in 1 .. Len(stderr) : stderr[k] = e}

\* the line counts of input f at which a progress line is due
Multiples(f) == {m * ProgressEvery : m \in 1 .. (files[f] \div ProgressEvery)}

\* C18: with Verbose off nothing is printed. With Verbose on, the path of
\* every published input has been printed; a progress line is printed
\* exactly when a target's line count reaches a multiple of ProgressEvery;
\* the total line of a target is printed once, when its last line has been
\* pushed, with the number of its lines, after its path and its progress
\* lines; nothing is printed twice.
C18_VerboseDiagnostics ==
    /\ [](~param.Verbose => stderr = <<>>)
    /\ [](param.Verbose =>
            /\ \A k \in 1 .. Len(stderr) : PrintedAt(stderr[k]) = {k}
            /\ \A f \in Inputs : f < fi => PrintedAt(<<"path", f>>) # {}
            /\ \A k \in 1 .. Len(stderr) :
                  LET e == stderr[k] IN
                  /\ e[1] # "path" =>
                        \E m \in 1 .. (k - 1) : stderr[m] = <<"path", e[2]>>
                  /\ e[1] = "line" => e[3] \in Multiples(e[2])
                  /\ e[1] = "total" =>
                        /\ e[3] = files[e[2]]
                        /\ \A c \in Multiples(e[2]) :
                              \E m \in 1 .. (k - 1) : stderr[m] = <<"line", e[2], c>>)
    /\ [][param.Verbose =>
            \A j \in Scanners :
               /\ slc'[j] = slc[j] + 1 =>
                     stderr' = IF slc'[j] % ProgressEvery = 0
                               THEN Append(stderr, <<"line", stg[j], slc'[j]>>)
                               ELSE stderr
               /\ (spc[j] = "scan" /\ spc'[j] = "range") =>
                     /\ slc[j] = files[stg[j]]
                     /\ stderr' = Append(stderr, <<"total", stg[j], slc[j]>>)]_vars

C18_Witness ==
    /\ doPc = "returned"
    /\ stderr = <<<<"path", 1>>, <<"line", 1, ProgressEvery>>,
                  <<"total", 1, ProgressEvery + 1>>>>

\* ------------------------------------------------------------- shard paths
\* the digit the one-character string c stands for, -1 when it is no digit
DigitValue(c) ==
    IF \E d \in 1 .. 10 : Digits[d] = c
    THEN (CHOOSE d \in 1 .. 10 : Digits[d] = c) - 1
    ELSE -1

\* the number the decimal string s stands for, -1 when s is not all digits
RECURSIVE Atoi(_)
Atoi(s) ==
    IF s = "" THEN 0
    ELSE LET front == Atoi(SubSeq(s, 1, Len(s) - 1))
             d == DigitValue(SubSeq(s, Len(s), Len(s))) IN
         IF front < 0 \/ d < 0 THEN -1 ELSE 10 * front + d

\* the suffix the write mode asks for
ModeSuffix == IF param.Compress \in {"gzip", "gz"} THEN ".gz" ELSE ""

\* C21: the path computed for shard i is the prefix, then i in decimal with
\* zeros in front up to three digits (no zero in front of a longer number),
\* then ".gz" for the modes "gzip" and "gz" and nothing otherwise; it
\* differs from the path of every shard index computed before.
C21_ShardPathsDistinct ==
    [][paths' # paths =>
          LET path == paths'[pi + 1]
              index == SubSeq(path, Len(param.Prefix) + 1, Len(path) - Len(ModeSuffix)) IN
          /\ Len(paths') = pi + 1
          /\ SubSeq(path, 1, Len(param.Prefix)) = param.Prefix
          /\ SubSeq(path, Len(path) - Len(ModeSuffix) + 1, Len(path)) = ModeSuffix
          /\ Len(path) = Len(param.Prefix) + Len(index) + Len(ModeSuffix)
          /\ Atoi(index) = pi
          /\ Len(index) >= 3
          /\ Len(index) > 3 => SubSeq(index, 1, 1) # "0"
          /\ \A k \in 1 .. pi : paths[k] # path]_vars

C21_Witness ==
    /\ Len(paths) > 1000
    /\ param.Compress = "gz"
    /\ paths[8] = "out/file-007.gz"
    /\ paths[1001] = "out/file-1000.gz"

\* ------------------------------------------------------------- readTargets
\* C22: the feeder publishes the readTargets of the inputs in the order the
\* paths are given, each once, and all of them by the time it closes the
\* queue; a readTarget is received at most once in all, by the scan worker
\* that then holds it, and only after it was published; when Do returns
\* from a run that nothing cancelled every input's readTarget was received
\* exactly once.
C22_ReadTargetReceivedOnce ==
    /\ [](/\ Len(pub) = fi - 1
          /\ \A k \in 1 .. Len(pub) : pub[k] = k
          /\ chTargetClosed > 0 => Len(pub) = Len(files)
          /\ \A f \in Inputs :
                /\ nrecv[f] <= 1
                /\ nrecv[f] = 1 => f \in Range(pub)
          /\ (doPc = "returned" /\ ctxCause = "Do") => \A f \in Inputs : nrecv[f] = 1)
    /\ [][\A f \in Inputs :
            nrecv'[f] # nrecv[f] =>
                /\ Cardinality({j \in Scanners : stg'[j] = f /\ spc'[j] = "scan"
                                                 /\ spc[j] \in {"range", "rparked"}}) = 1
                /\ f \notin Range(chTarget')]_vars

C22_Witness ==
    /\ param.Parallelism = MaxPar
    /\ Len(files) = MaxFiles
    /\ doPc = "returned"
    /\ ctxCause = "Do"
    /\ pub = <<1, 2>>
    /\ \A f \in Inputs : nrecv[f] = 1

\* ------------------------------------------------------------- input streams
\* scan worker j is in the scanner.Scan() loop of the readTarget it holds:
\* it reads from the stream again unless the signal makes it return
Reading(j) == spc[j] \in {"scan", "sparked", "sent"}

\* C23: no input stream is released while a scan worker is still reading
\* from it, whatever fails and whoever cancels.
C23_NoReleaseWhileReading ==
    \A j \in Scanners : Reading(j) => reader[stg[j]] # "released"

\* ------------------------------------------------------------- cancellation
\* write worker i exists and is at one of the positions ps
WAt(i, ps) == IF i \in Writers THEN wpc[i] \in ps ELSE FALSE

\* scan worker j exists and is at one of the positions ps
SAt(j, ps) == IF j \in Scanners THEN spc[j] \in ps ELSE FALSE

\* C24: once the signal is set, a feeder blocked sending a readTarget, a
\* scan worker blocked receiving one, a scan worker blocked sending a line
\* and a write worker blocked receiving one each unblock and terminate.
C24_BlockedWorkersLeaveOnCancel ==
    /\ (Done /\ doPc \in {"feedParked", "feedCtxErr"}) ~>
            (doPc \notin {"feed", "feedParked", "feedCtxErr"})
    /\ \A i \in 0 .. (MaxSplit - 1) :
            (Done /\ WAt(i, {"parked", "ctxErr"})) ~> WAt(i, {"done"})
    /\ \A j \in 1 .. MaxPar :
            (Done /\ SAt(j, {"sparked", "ctxErr"})) ~> SAt(j, {"done"})
    /\ \A j \in 1 .. MaxPar :
            (Done /\ SAt(j, {"rparked"})) ~> SAt(j, {"done"})

\* ------------------------------------------------------------- return of Do
\* C25: when Do has returned, every write worker and every scan worker that
\* was started has terminated.
C25_NoWorkerOutlivesDo ==
    doPc = "returned" =>
        /\ \A i \in Writers : wpc[i] \in {"idle", "done"}
        /\ \A j \in Scanners : spc[j] \in {"idle", "done"}

\* ------------------------------------------------------------- stage order
\* C26: a scan worker is started only when every write worker has been
\* started, the feeder opens and publishes its first input only when every
\* scan worker has been started, and Do awaits the write stage only after
\* its wait for the scan stage has returned.
C26_StagesStartInOrder ==
    /\ []((\E j \in Scanners : spc[j] # "idle") => \A i \in Writers : wpc[i] # "idle")
    /\ []((pub # <<>> \/ fi > 1 \/ \E f \in Inputs : reader[f] # "unopened") =>
              \A j \in Scanners : spc[j] # "idle")
    /\ [][/\ (\E j \in Scanners : spc[j] = "idle" /\ spc'[j] # "idle") =>
                (doPc = "ParallelFileScan" /\ \A i \in Writers : wpc[i] # "idle")
          /\ (doPc # "writeWait" /\ doPc' = "writeWait") =>
                (doPc = "scanWait" /\ egScanWaitReturned
                 /\ \A j \in Scanners : spc[j] = "done")]_vars

C26_Witness ==
    /\ param.Split = MaxSplit
    /\ param.Parallelism = MaxPar
    /\ doPc = "writeWait"
    /\ Len(pub) = MaxFiles
    /\ \E i \in Writers : wpc[i] \notin {"idle", "done"}

\* ------------------------------------------------------------- bounded queues
\* C27: chTarget and chLine never hold more than Parallelism entries; a
\* sender blocks only on a full queue; a blocked sender publishes nothing
\* and counts nothing, and it leaves the blocked send only when a receiver
\* has taken an entry (its send then completes) or the signal is set.
C27_QueuesBoundedWithBackpressure ==
    /\ [](/\ Len(chTarget) <= param.Parallelism
          /\ Len(chLine) <= param.Parallelism
          /\ doPc = "feedParked" => Len(chTarget) = param.Parallelism
          /\ sendqLine # <<>> => Len(chLine) = param.Parallelism
          /\ \A j \in Scanners : spc[j] = "sparked" <=> j \in Range(sendqLine))
    /\ [][/\ doPc = "feedParked" =>
                \/ doPc' = "feedParked" /\ pub' = pub /\ fi' = fi
                \/ doPc' = "feedCtxErr" /\ Done' /\ pub' = pub /\ fi' = fi
                \/ /\ doPc' = "feed"
                   /\ \E f \in Inputs : nrecv'[f] = nrecv[f] + 1 /\ f = Head(chTarget)
                   /\ pub' = Append(pub, fi)
          /\ \A j \in Scanners : spc[j] = "sparked" =>
                \/ spc'[j] = "sparked" /\ slc'[j] = slc[j]
                \/ spc'[j] = "ctxErr" /\ Done' /\ slc'[j] = slc[j]
                \/ /\ spc'[j] = "sent"
                   /\ \E i \in Writers : wpc[i] = "sel" /\ wpc'[i] = "write"
                                           /\ wline'[i] = Head(chLine)
                   /\ chLine' = Append(Tail(chLine), <<stg[j], slc[j] + 1>>)]_vars

C27_Witness ==
    /\ param.Parallelism = 1
    /\ Len(chLine) = param.Parallelism
    /\ spc[1] = "sent"
    /\ \E i \in Writers : wpc[i] = "write"

\* ------------------------------------------------------------- gzip shards
GzipMode == param.Compress \in {"gzip", "gz"}

\* C28: for a gzip shard whose createWriter succeeded nothing is released
\* while the worker runs; when the worker has ended, on the close of the
\* line queue and on cancellation alike, the encoder was closed once and
\* then the file once, in this order.
C28_GzipEncoderClosedBeforeFile ==
    GzipMode =>
        \A i \in Writers :
            /\ wran[i] \in {<<>>, <<"gzw.Close", "fp.Close">>}
            /\ wpc[i] \in {"sel", "parked", "write", "ctxErr", "closed"} =>
                    (wran[i] = <<>> /\ wcl[i].funcs = <<"fp.Close", "gzw.Close">>)
            /\ (wpc[i] \in {"returning", "done"} /\ fpOpens[i] = 1) =>
                    wran[i] = <<"gzw.Close", "fp.Close">>

C28_Witness ==
    /\ GzipMode
    /\ \E i \in Writers : /\ wpc[i] = "done" /\ werr[i] = ErrCanceled
                           /\ wran[i] = <<"gzw.Close", "fp.Close">>
    /\ \E i \in Writers : /\ wpc[i] = "done" /\ werr[i] = Nil /\ shard[i] # <<>>
                           /\ wran[i] = <<"gzw.Close", "fp.Close">>

\* ------------------------------------------------------------- second acquisition
\* createWriter of shard i failed in decorateWriter, after os.Create
DecorateWriterFailed(i) == wret[i].err # Nil /\ fpOpens[i] = 1

\* the last createReader failed in decorateReader, after openInput
DecorateReaderFailed == rret.err = <<"decorateReader", "failed">>

\* C29: when createWriter fails in decorateWriter the shard file it created
\* has been closed exactly once and it returned no writer and no release
\* handle; when createReader fails in decorateReader the input it opened
\* has been closed exactly once, it returned no reader and no release
\* handle, and the feeder neither registered nor published that input.
C29_FailedSecondAcquisitionReleasesFirst ==
    /\ \A i \in Writers : DecorateWriterFailed(i) =>
            /\ fpCloses[i] = 1
            /\ wran[i] = <<"fp.Close">>
            /\ shardFile[i] # "open"
            /\ wret[i].v = "nil" /\ wret[i].cleanup = "nil"
    /\ DecorateReaderFailed =>
            /\ rdOpens[fi] = 1 /\ rdCloses[fi] = 1
            /\ reader[fi] = "released"
            /\ rret.v = "nil" /\ rret.cleanup = "nil"
            /\ fi \notin Range(cleanups.funcs)
            /\ fi \notin Range(pub)

C29_Witness ==
    /\ \E i \in Writers : DecorateWriterFailed(i) /\ wpc[i] = "done"
    /\ DecorateReaderFailed
    /\ fi = MaxFiles
    /\ doPc = "panicked"

\* ------------------------------------------------------------- shard writes
\* C30: a write worker writes to its shard only after its createWriter has
\* succeeded and before the shard's release handle has run: it holds a line
\* to write only in between, and once the handle has run the content of
\* the shard does not change any more.
C30_WritesBetweenCreateAndRelease ==
    /\ [](\A i \in Writers :
            /\ wpc[i] = "write" =>
                  /\ wret[i] # NoRet /\ wret[i].err = Nil
                  /\ fpOpens[i] = 1 /\ shardFile[i] = "open"
                  /\ wran[i] = <<>> /\ ~wcl[i].once
            /\ shard[i] # <<>> => (fpOpens[i] = 1 /\ wret[i].err = Nil))
    /\ [][\A i \in Writers :
            /\ (wran[i] # <<>> \/ wcl[i].once) => shard'[i] = shard[i]
            /\ shard'[i] # shard[i] =>
                  /\ wret[i] # NoRet /\ wret[i].err = Nil
                  /\ shardFile[i] = "open" /\ wran'[i] = <<>>]_vars

C30_Witness ==
    \E i \in Writers :
        /\ wpc[i] = "done"
        /\ werr[i] = ErrCanceled
        /\ wran[i] # <<>>
        /\ shard[i] # <<>>
        /\ chLine # <<>>

\* ------------------------------------------------------------- input release
\* the feeder's createReader succeeded for input f
OpenedOk(f) == rdOpens[f] = 1 /\ (f < fi \/ rret.err = Nil)

\* C31: no input stream is ever closed more often than it was opened, nor
\* more than once; when the run has ended (Do has returned or panicked)
\* every input the feeder opened has been closed exactly once.
C31_InputsReleasedOnce ==
    /\ \A f \in Inputs : rdOpens[f] <= 1 /\ rdCloses[f] <= rdOpens[f]
    /\ Terminal => \A f \in Inputs : rdCloses[f] = rdOpens[f]
    /\ Terminal => \A f \in Inputs : OpenedOk(f) => reader[f] = "released"

C31_Witness ==
    /\ doPc = "panicked"
    /\ Len(files) = MaxFiles
    /\ Reports(Wrap("ParallelFileScan", ErrCanceled))
    /\ \A f \in Inputs : OpenedOk(f) /\ rdCloses[f] = 1

\* ------------------------------------------------------------- concurrent do
\* everything but the cleanups stack under test and its threads
others == <<pvars, rvars, tvars, fvars, stderr, files, param, ctxCause, faults, doPc,
            wi, fi, retErr, egScanNil, chLine, chLineClosed, recvqLine, sendqLine,
            chTarget, chTargetClosed, recvqTarget, wpc, wline, werr, egWriteErr,
            shard, shardFile, wdec, wfails, spc, stg, slc, serr, egScanErr,
            reader, cleanups, wrapPc, wrapErr>>

\* a Once that is marked done when its function starts
doneAtLock_Early(done) == TRUE

\* sync.Once: taking the mutex leaves the done mark as it is; the mark is
\* set after the function has returned
doneAtLock(done) == done

\* cs.add(f) before the threads start
K_add ==
    /\ \A t \in Threads : tpc[t] = "idle"
    /\ C_add

\* thread t calls cs.do(): once.Do returns at once when the Once is marked
\* done, and goes for the mutex otherwise
T_Do(t) ==
    /\ tpc[t] = "idle"
    /\ IF cs.once
       THEN /\ tpc' = [tpc EXCEPT ![t] = "returned"]
            /\ tpath' = [tpath EXCEPT ![t] = "fast"]
       ELSE /\ tpc' = [tpc EXCEPT ![t] = "lock"]
            /\ tpath' = [tpath EXCEPT ![t] = "slow"]
    /\ UNCHANGED <<impl, cs, called, doRet, ndo, ti, terr, oncem>>
    /\ UNCHANGED others

\* thread t takes the mutex of the Once when no thread holds it, and looks
\* at the done mark again: not done, it is the thread that runs the funcs
T_Lock(t) ==
    /\ tpc[t] = "lock"
    /\ oncem = 0
    /\ oncem' = t
    /\ IF cs.once
       THEN /\ tpc' = [tpc EXCEPT ![t] = "unlock"]
            /\ UNCHANGED <<cs, ti, tpath>>
       ELSE /\ tpc' = [tpc EXCEPT ![t] = "func"]
            /\ ti' = [ti EXCEPT ![t] = Len(cs.funcs)]
            /\ tpath' = [tpath EXCEPT ![t] = "ran"]
            /\ cs' = [cs EXCEPT !.once = doneAtLock(@)]
    /\ UNCHANGED <<impl, called, doRet, ndo, terr>>
    /\ UNCHANGED others

\* thread t runs the next func, from the last registered to the first, and
\* with the funcs that return an error appends its result; when none is
\* left the function given to once.Do returns and the Once is marked done
T_func(t) ==
    /\ tpc[t] = "func"
    /\ IF ti[t] >= 1
       THEN /\ called' = Append(called, cs.funcs[ti[t]])
            /\ ti' = [ti EXCEPT ![t] = @ - 1]
            /\ terr' = IF impl = "multierror"
                       THEN [terr EXCEPT
                               ![t] = multierrorAppend(@, callFunc(cs.funcs[ti[t]]))]
                       ELSE terr
            /\ UNCHANGED <<cs, tpc>>
       ELSE /\ cs' = [cs EXCEPT !.once = TRUE]
            /\ tpc' = [tpc EXCEPT ![t] = "unlock"]
            /\ UNCHANGED <<called, ti, terr>>
    /\ UNCHANGED <<impl, doRet, ndo, tpath, oncem>>
    /\ UNCHANGED others

\* thread t gives the mutex back and its call of cs.do() returns
T_Unlock(t) ==
    /\ tpc[t] = "unlock"
    /\ oncem' = 0
    /\ tpc' = [tpc EXCEPT ![t] = "returned"]
    /\ UNCHANGED <<impl, cs, called, doRet, ndo, ti, terr, tpath>>
    /\ UNCHANGED others

\* a cleanups stack of either kind, filled and then handed to threads that
\* each call do() once
ConcNext ==
    \/ K_add
    \/ \E t \in Threads : T_Do(t)
    \/ \E t \in Threads : T_Lock(t)
    \/ \E t \in Threads : T_func(t)
    \/ \E t \in Threads : T_Unlock(t)

ConcSpec == CleanupInit /\ [][ConcNext]_vars

\* C32: when threads call do() on one stack at the same time, no registered
\* action runs twice, and a call has returned only when every registered
\* action has run.
C32_ConcurrentDoRunsEachOnce ==
    /\ \A k, m \in 1 .. Len(called) : called[k].id = called[m].id => k = m
    /\ \A t \in Threads : tpc[t] = "returned" => called = Reverse(cs.funcs)

\* two calls that overlapped have returned: one ran the actions, the other
\* came while the Once was not yet marked done
C32_Witness ==
    /\ \A t \in Threads : tpc[t] = "returned"
    /\ \E t, u \in Threads : tpath[t] = "ran" /\ tpath[u] = "slow"
    /\ Len(called) = MaxAdds

\* ------------------------------------------------------------- error of do
\* the actions the last step of cs.do() executed
Executed == [k \in 1 .. (Len(called') - Len(called)) |-> called'[Len(called) + k]]

\* C33: the error a call of the error-returning do returns is nil exactly
\* when no action that call executed returned an error.
C33_DoErrorNilIffNoFailure ==
    [][(impl = "multierror" /\ ndo' = ndo + 1) =>
          (doRet'.nil <=> \A k \in 1 .. Len(Executed) : ~Executed[k].fails)]_vars

====
